---------------------------- MODULE Spec2Model ----------------------------
(***************************************************************************)
(* Model of ib.client.message (ibpy): the socket message decoders and      *)
(* their listener dispatch.  One behaviour drives one decoder instance     *)
(* (and, for TickPrice, its cooperating TickSize decoder) through a        *)
(* bounded number of read() calls.  Every primitive read, every listener   *)
(* iteration of preDispatch and postDispatch is one step.                  *)
(***************************************************************************)
EXTENDS Integers, Sequences, FiniteSets, TLC

(***************************************************************************)
(* Bounds of the model.                                                    *)
(***************************************************************************)
\* listeners registered on the decoders of one behaviour
MaxListeners == 3
\* read() calls per behaviour
MaxMsgs == 2
\* versions explored above the highest version a decoder's code mentions
VersionSlack == 1
\* largest row count sent in a HistoricalData / ScannerData message
MaxRows == 2

(***************************************************************************)
(* Values.  Python values are modelled as records of one shape: t is the   *)
(* Python type, n the number (floats are fixed-point, in tenths) and s the *)
(* text.  A data string whose text is irrelevant is the string "#" tagged  *)
(* with the number n.                                                      *)
(***************************************************************************)
IntV(n) == [t |-> "int", n |-> n, s |-> ""]
FloatV(n) == [t |-> "float", n |-> n, s |-> ""]
StrV(s) == [t |-> "str", n |-> 0, s |-> s]
DataStrV(n) == [t |-> "str", n |-> n, s |-> "#"]
BoolV(b) == [t |-> "bool", n |-> IF b THEN 1 ELSE 0, s |-> ""]
NoneV == [t |-> "none", n |-> 0, s |-> ""]
ObjV(cls) == [t |-> "obj", n |-> 0, s |-> cls]
ListV(len) == [t |-> "list", n |-> len, s |-> ""]

\* the 1 of "abs(delta) > 1", in tenths
DeltaLimit == 10

\* ib.types.TickType, as used by TickPrice.read
BID_SIZE == 0
BID == 1
ASK == 2
ASK_SIZE == 3
LAST == 4
LAST_SIZE == 5

(***************************************************************************)
(* The decoder classes that define read().                                 *)
(***************************************************************************)
Kinds ==
    { "AccountValue", "AccountTime", "ContractDetails", "Error", "Execution",
      "ManagedAccounts", "MarketDepth", "MarketDepthLevel2", "NextId",
      "OpenOrder", "OrderStatus", "Portfolio", "TickPrice", "TickSize",
      "TickOptionComputation", "NewsBulletin", "ReceiveFa", "HistoricalData",
      "BondContractData", "ScannerParameters", "ScannerData" }

\* the highest version number the decoder's read() compares against
TopVersion(kind) ==
    CASE kind = "AccountValue" -> 2
      [] kind = "ContractDetails" -> 2
      [] kind = "Error" -> 2
      [] kind = "Execution" -> 4
      [] kind = "OpenOrder" -> 12
      [] kind = "OrderStatus" -> 5
      [] kind = "Portfolio" -> 4
      [] kind = "TickPrice" -> 3
      [] OTHER -> 1

Versions(kind) == 1 .. (TopVersion(kind) + VersionSlack)

(***************************************************************************)
(* One primitive read of a read() method: the primitive called (t), the    *)
(* object and attribute (or local, o = "") the result is assigned to, the  *)
(* expression applied to the token (conv), the row of a repeated group it  *)
(* belongs to (0: none) and whether the assignment target cannot be        *)
(* resolved (err: the attribute lookup raises after the token was read).   *)
(***************************************************************************)
Rd(o, a, t, conv) ==
    [o |-> o, a |-> a, t |-> t, conv |-> conv, row |-> 0, err |-> FALSE]
RInt(o, a) == Rd(o, a, "int", "id")
RFloat(o, a) == Rd(o, a, "float", "id")
RStr(o, a) == Rd(o, a, "str", "id")
RowRd(i, a, t, conv) ==
    [o |-> "row", a |-> a, t |-> t, conv |-> conv, row |-> i, err |-> FALSE]
Broken(o, a, t) ==
    [o |-> o, a |-> a, t |-> t, conv |-> "id", row |-> 0, err |-> TRUE]

VersionRead == RInt("", "version")

\* AccountValue.read
AccountValueReads(version) ==
    << VersionRead, RStr("", "key"), RStr("", "value"), RStr("", "currency") >>
    \o (IF version >= 2 THEN << RStr("", "accountName") >> ELSE << >>)

\* AccountTime.read
AccountTimeReads(version) ==
    << VersionRead, RStr("", "timeStamp") >>

\* ContractDetails.read: "details = ContractDetails()" names this module's
\* decoder class (the class statement rebinds the imported name), whose
\* instances have no summary attribute; the right-hand side readStr() is
\* evaluated before the failing lookup of details.summary
ContractDetailsReads(version) ==
    << VersionRead, Broken("details.summary", "symbol", "str") >>

\* an Error.read that reads the code before the id
ErrorReadsSwapped(version) ==
    << VersionRead >>
    \o (IF version < 2
           THEN << RStr("", "error_msg") >>
           ELSE << RInt("", "error_code"), RInt("", "error_id"),
                   RStr("", "error_msg") >>)

\* Error.read
ErrorReads(version) ==
    << VersionRead >>
    \o (IF version < 2
           THEN << RStr("", "error_msg") >>
           ELSE << RInt("", "error_id"), RInt("", "error_code"),
                   RStr("", "error_msg") >>)

\* Execution.read
ExecutionReads(version) ==
    << VersionRead, RInt("", "orderId"),
       RStr("contract", "symbol"), RStr("contract", "secType"),
       RStr("contract", "expiry"), RFloat("contract", "strike"),
       RStr("contract", "right"), RStr("contract", "exchange"),
       RStr("contract", "currency"), RStr("contract", "localSymbol"),
       RStr("details", "execId"), RStr("details", "time"),
       RStr("details", "acctNumber"), RStr("details", "exchange"),
       RStr("details", "side"), RInt("details", "shares"),
       RFloat("details", "price") >>
    \o (IF version >= 2 THEN << RInt("details", "permId") >> ELSE << >>)
    \o (IF version >= 3 THEN << RInt("details", "clientId") >> ELSE << >>)
    \o (IF version >= 4 THEN << RInt("details", "liquidation") >> ELSE << >>)

\* ManagedAccounts.read
ManagedAccountsReads(version) ==
    << VersionRead, RStr("", "accounts") >>

\* MarketDepth.read
MarketDepthReads(version) ==
    << VersionRead, RInt("", "tickerId"), RInt("", "position"),
       RInt("", "operation"), RInt("", "side"), RFloat("", "price"),
       RInt("", "size") >>

\* MarketDepthLevel2.read
MarketDepthLevel2Reads(version) ==
    << VersionRead, RInt("", "tickerId"), RInt("", "position"),
       RStr("", "market_maker"), RInt("", "operation"), RInt("", "side"),
       RFloat("", "price"), RInt("", "size") >>

\* NextId.read
NextIdReads(version) ==
    << VersionRead, RInt("", "nextValidId") >>

\* an OpenOrder.read without the branch for version 11
OpenOrderDeltaNeutralUniform(version) ==
    << RStr("order", "deltaNeutralOrderType"),
       RFloat("order", "deltaNeutralAuxPrice") >>

\* OpenOrder.read, the delta-neutral fields of "if version >= 11"
OpenOrderDeltaNeutral(version) ==
    IF version = 11
       THEN << Rd("order", "deltaNeutralOrderType", "int", "noneOrMkt") >>
       ELSE << RStr("order", "deltaNeutralOrderType"),
               RFloat("order", "deltaNeutralAuxPrice") >>

\* OpenOrder.read
OpenOrderReads(version) ==
    << VersionRead, RInt("order", "orderId"),
       RStr("contract", "symbol"), RStr("contract", "secType"),
       RStr("contract", "expiry"), RFloat("contract", "strike"),
       RStr("contract", "right"), RStr("contract", "exchange"),
       RStr("contract", "currency") >>
    \o (IF version >= 2 THEN << RStr("contract", "localSymbol") >> ELSE << >>)
    \o << RStr("order", "action"), RInt("order", "totalQuantity"),
          RStr("order", "orderType"), RFloat("order", "lmtPrice"),
          RFloat("order", "auxPrice"), RStr("order", "tif"),
          RStr("order", "ocaGroup"), RStr("order", "account"),
          RStr("order", "openClose"), RInt("order", "origin"),
          RStr("order", "orderRef") >>
    \o (IF version >= 3 THEN << RInt("order", "clientId") >> ELSE << >>)
    \o (IF version >= 4
           THEN << RInt("order", "permId"),
                   Rd("order", "ignoreRth", "int", "eq1"),
                   Rd("order", "hidden", "int", "eq1"),
                   RFloat("order", "discretionaryAmt") >>
           ELSE << >>)
    \o (IF version >= 5 THEN << RStr("order", "goodAfterTime") >> ELSE << >>)
    \o (IF version >= 6 THEN << RStr("order", "sharesAllocation") >> ELSE << >>)
    \o (IF version >= 7
           THEN << RStr("order", "faGroup"), RStr("order", "faMethod"),
                   RStr("order", "faPercentage"), RStr("order", "faProfile") >>
           ELSE << >>)
    \o (IF version >= 8 THEN << RStr("order", "goodTillDate") >> ELSE << >>)
    \o (IF version >= 9
           THEN << RStr("order", "rule80A"), RFloat("order", "percentOffset"),
                   RStr("order", "settlingFirm"), RInt("order", "shortSaleSlot"),
                   RStr("order", "designatedLocation"),
                   RInt("order", "auctionStrategy"),
                   RFloat("order", "startingPrice"),
                   RFloat("order", "stockRefPrice"), RFloat("order", "delta"),
                   RFloat("order", "stockRangeLower"),
                   RFloat("order", "stockRangeUpper"),
                   RInt("order", "displaySize"),
                   Rd("order", "rthOnly", "int", "bool"),
                   Rd("order", "blockOrder", "int", "bool"),
                   Rd("order", "sweepToFill", "int", "bool"),
                   Rd("order", "allOrNone", "int", "bool"),
                   RInt("order", "minQty"), RInt("order", "ocaType"),
                   Rd("order", "eTradeOnly", "int", "bool"),
                   Rd("order", "firmQuoteOnly", "int", "bool"),
                   RFloat("order", "nbboPriceCap") >>
           ELSE << >>)
    \o (IF version >= 10
           THEN << RInt("order", "parentId"), RInt("order", "triggerMethod") >>
           ELSE << >>)
    \o (IF version >= 11
           THEN << RFloat("order", "volatility"),
                   RInt("order", "volatilityType") >>
                \o OpenOrderDeltaNeutral(version)
                \o << RInt("order", "continuousUpdate"),
                      RInt("order", "referencePriceType") >>
           ELSE << >>)

\* an OrderStatus.read that gates permId by "version == 2"
OrderStatusReadsExact(version) ==
    << VersionRead, RInt("", "orderId"), RStr("", "message"),
       RInt("", "filled"), RInt("", "remaining"), RFloat("", "avgFillPrice") >>
    \o (IF version = 2 THEN << RInt("", "permId") >> ELSE << >>)
    \o (IF version >= 3 THEN << RInt("", "parentId") >> ELSE << >>)
    \o (IF version >= 4 THEN << RFloat("", "lastFillPrice") >> ELSE << >>)
    \o (IF version >= 5 THEN << RInt("", "clientId") >> ELSE << >>)

\* an OrderStatus.read that reads the version-4 field before parentId
OrderStatusReadsInserted(version) ==
    << VersionRead, RInt("", "orderId"), RStr("", "message"),
       RInt("", "filled"), RInt("", "remaining"), RFloat("", "avgFillPrice") >>
    \o (IF version >= 2 THEN << RInt("", "permId") >> ELSE << >>)
    \o (IF version >= 4 THEN << RFloat("", "lastFillPrice") >> ELSE << >>)
    \o (IF version >= 3 THEN << RInt("", "parentId") >> ELSE << >>)
    \o (IF version >= 5 THEN << RInt("", "clientId") >> ELSE << >>)

\* OrderStatus.read
OrderStatusReads(version) ==
    << VersionRead, RInt("", "orderId"), RStr("", "message"),
       RInt("", "filled"), RInt("", "remaining"), RFloat("", "avgFillPrice") >>
    \o (IF version >= 2 THEN << RInt("", "permId") >> ELSE << >>)
    \o (IF version >= 3 THEN << RInt("", "parentId") >> ELSE << >>)
    \o (IF version >= 4 THEN << RFloat("", "lastFillPrice") >> ELSE << >>)
    \o (IF version >= 5 THEN << RInt("", "clientId") >> ELSE << >>)

\* Portfolio.read
PortfolioReads(version) ==
    << VersionRead, RStr("contract", "symbol"), RStr("contract", "secType"),
       RStr("contract", "expiry"), RFloat("contract", "strike"),
       RStr("contract", "right"), RStr("contract", "currency") >>
    \o (IF version >= 2 THEN << RStr("contract", "localSymbol") >> ELSE << >>)
    \o << RInt("", "position"), RFloat("", "market_price"),
          RFloat("", "market_value") >>
    \o (IF version >= 3
           THEN << RFloat("", "average_cost"), RFloat("", "unrealized_pnl"),
                   RFloat("", "realized_pnl") >>
           ELSE << >>)
    \o (IF version >= 4 THEN << RStr("", "accountName") >> ELSE << >>)

\* a TickPrice.read that gates canAutoExecute by "version == 3"
TickPriceReadsExact(version) ==
    << VersionRead, RInt("", "tickerId"), RInt("", "tickType"),
       RFloat("", "price") >>
    \o (IF version >= 2 THEN << RInt("", "size") >> ELSE << >>)
    \o (IF version = 3 THEN << RInt("", "canAutoExecute") >> ELSE << >>)

\* TickPrice.read
TickPriceReads(version) ==
    << VersionRead, RInt("", "tickerId"), RInt("", "tickType"),
       RFloat("", "price") >>
    \o (IF version >= 2 THEN << RInt("", "size") >> ELSE << >>)
    \o (IF version >= 3 THEN << RInt("", "canAutoExecute") >> ELSE << >>)

\* TickSize.read
TickSizeReads(version) ==
    << VersionRead, RInt("", "tickerId"), RInt("", "tickType"),
       RInt("", "size") >>

\* TickOptionComputation.read
TickOptionComputationReads(version) ==
    << VersionRead, RInt("", "tickerId"), RInt("", "tickType"),
       Rd("", "impliedVol", "float", "negToEmpty"),
       Rd("", "delta", "float", "bigToEmpty") >>

\* NewsBulletin.read
NewsBulletinReads(version) ==
    << VersionRead, RInt("", "news_id"), RInt("", "news_type"),
       RStr("", "news_message"), RStr("", "news_exchange") >>

\* ReceiveFa.read
ReceiveFaReads(version) ==
    << VersionRead, RInt("", "data_type"), RStr("", "xml") >>

\* HistoricalData.read, one pass of "for i in range(nitems)"
HistoricalRow(i) ==
    << RowRd(i, "date", "str", "id"), RowRd(i, "open", "float", "id"),
       RowRd(i, "high", "float", "id"), RowRd(i, "low", "float", "id"),
       RowRd(i, "close", "float", "id"), RowRd(i, "volume", "int", "id"),
       RowRd(i, "wap", "float", "id"),
       RowRd(i, "hasGaps", "str", "lowerIsTrue") >>

RECURSIVE HistoricalRows(_, _)
HistoricalRows(i, n) ==
    IF i > n THEN << >> ELSE HistoricalRow(i) \o HistoricalRows(i + 1, n)

\* a HistoricalData.read that takes a negative count for its magnitude
HistoricalDataReadsMagnitude(version, n) ==
    << VersionRead, RInt("", "tickerId"), RInt("", "nitems") >>
    \o HistoricalRows(1, IF n < 0 THEN 0 - n ELSE n)

\* HistoricalData.read
HistoricalDataReads(version, n) ==
    << VersionRead, RInt("", "tickerId"), RInt("", "nitems") >>
    \o HistoricalRows(1, n)

\* BondContractData.read: as in ContractDetails.read, details is an
\* instance of this module's ContractDetails decoder
BondContractDataReads(version) ==
    << VersionRead, Broken("details.summary", "symbol", "str") >>

\* ScannerParameters.read
ScannerParametersReads(version) ==
    << VersionRead, RStr("", "xml") >>

\* ScannerData.read: the first pass of the loop reads rank, constructs a
\* ContractDetails decoder and fails on contract.summary
ScannerDataReads(version, n) ==
    << VersionRead, RInt("", "tickerId"), RInt("", "elementCount") >>
    \o (IF n >= 1
           THEN << RowRd(1, "rank", "int", "id"),
                   Broken("contract.summary", "symbol", "str") >>
           ELSE << >>)

\* The primitive reads read() performs, in order, for a message of the
\* given version whose count field (when it has one) is n
Reads(kind, version, n) ==
    CASE kind = "AccountValue" -> AccountValueReads(version)
      [] kind = "AccountTime" -> AccountTimeReads(version)
      [] kind = "ContractDetails" -> ContractDetailsReads(version)
      [] kind = "Error" -> ErrorReads(version)
      [] kind = "Execution" -> ExecutionReads(version)
      [] kind = "ManagedAccounts" -> ManagedAccountsReads(version)
      [] kind = "MarketDepth" -> MarketDepthReads(version)
      [] kind = "MarketDepthLevel2" -> MarketDepthLevel2Reads(version)
      [] kind = "NextId" -> NextIdReads(version)
      [] kind = "OpenOrder" -> OpenOrderReads(version)
      [] kind = "OrderStatus" -> OrderStatusReads(version)
      [] kind = "Portfolio" -> PortfolioReads(version)
      [] kind = "TickPrice" -> TickPriceReads(version)
      [] kind = "TickSize" -> TickSizeReads(version)
      [] kind = "TickOptionComputation" -> TickOptionComputationReads(version)
      [] kind = "NewsBulletin" -> NewsBulletinReads(version)
      [] kind = "ReceiveFa" -> ReceiveFaReads(version)
      [] kind = "HistoricalData" -> HistoricalDataReads(version, n)
      [] kind = "BondContractData" -> BondContractDataReads(version)
      [] kind = "ScannerParameters" -> ScannerParametersReads(version)
      [] kind = "ScannerData" -> ScannerDataReads(version, n)

\* the local holding the row count of a message with repeated groups
CountLocal(kind) ==
    CASE kind = "HistoricalData" -> "nitems"
      [] kind = "ScannerData" -> "elementCount"
      [] OTHER -> ""

(***************************************************************************)
(* The expressions read() applies to a token before assigning it.          *)
(***************************************************************************)
Abs(x) == IF x < 0 THEN 0 - x ELSE x

\* str.lower() on the texts the model sends
Lower(s) ==
    CASE s = "True" -> "true"
      [] s = "TRUE" -> "true"
      [] OTHER -> s

\* "readInt() == 1" (OpenOrder ignoreRth, hidden)
EqualsOne(tok) == BoolV(tok.n = 1)

\* "bool(readInt())"
Truth(tok) == BoolV(tok.n # 0)

\* "receivedInt == 0 and "NONE" or "MKT""
NoneOrMkt(tok) == IF tok.n = 0 THEN StrV("NONE") ELSE StrV("MKT")

\* "if impliedVol < 0: impliedVol = ''"
NegToEmpty(tok) == IF tok.n < 0 THEN StrV("") ELSE tok

\* a normalisation that takes a delta of exactly 1 or -1 for unavailable
BigToEmptyInclusive(tok) == IF Abs(tok.n) >= DeltaLimit THEN StrV("") ELSE tok

\* "if abs(delta) > 1: delta = ''"
BigToEmpty(tok) == IF Abs(tok.n) > DeltaLimit THEN StrV("") ELSE tok

\* a comparison with the literal "true" that does not fold the case
LowerIsTrueExact(tok) == BoolV(tok.s = "true")

\* "readStr().lower()=='true'"
LowerIsTrue(tok) == BoolV(Lower(tok.s) = "true")

Convert(conv, tok) ==
    CASE conv = "eq1" -> EqualsOne(tok)
      [] conv = "bool" -> Truth(tok)
      [] conv = "noneOrMkt" -> NoneOrMkt(tok)
      [] conv = "negToEmpty" -> NegToEmpty(tok)
      [] conv = "bigToEmpty" -> BigToEmpty(tok)
      [] conv = "lowerIsTrue" -> LowerIsTrue(tok)
      [] OTHER -> tok

(***************************************************************************)
(* Locals of a read() call: a function from <<object, attribute>> (object  *)
(* "" for a plain local) to the value assigned.                            *)
(***************************************************************************)
NoLocals == [x \in {} |-> NoneV]
Put(L, o, a, v) == (<<o, a>> :> v) @@ L
Has(L, o, a) == <<o, a>> \in DOMAIN L

\* the constants read() assigns to locals that a later "if version >= k"
\* may overwrite with a token
Defaults(kind, version) ==
    CASE kind = "AccountValue" -> Put(NoLocals, "", "accountName", StrV(""))
      [] kind = "Error" ->
            IF version < 2
               THEN Put(Put(NoLocals, "", "error_id", NoneV),
                        "", "error_code", NoneV)
               ELSE NoLocals
      [] kind = "OrderStatus" ->
            Put(Put(Put(Put(NoLocals, "", "permId", IntV(0)),
                        "", "parentId", IntV(0)),
                    "", "lastFillPrice", IntV(0)),
                "", "clientId", IntV(0))
      [] kind = "Portfolio" ->
            Put(Put(Put(Put(NoLocals, "", "average_cost", FloatV(0)),
                        "", "unrealized_pnl", FloatV(0)),
                    "", "realized_pnl", FloatV(0)),
                "", "accountName", StrV(""))
      [] kind = "TickPrice" ->
            Put(Put(NoLocals, "", "size", IntV(0)),
                "", "canAutoExecute", IntV(0))
      [] OTHER -> NoLocals

\* the assignment of one read's result, with the statements that follow it
\* before the next read; the elements of a row under construction are held
\* under the object "row" until the row is appended
Assign(kind, L, r, v) ==
    LET L1 == IF r.a = "version"
                 THEN Put(Defaults(kind, v.n), "", "version", v)
                 ELSE Put(L, r.o, r.a, v)
    IN  IF kind = "Execution" /\ r.o = "contract" /\ r.a = "localSymbol"
           THEN Put(L1, "details", "orderId", L1[<<"", "orderId">>])
           ELSE IF r.row > 0 /\ r.a = "hasGaps"
                   THEN [k \in { x \in DOMAIN L1 : x[1] # "row" } |-> L1[k]]
                   ELSE L1

\* a loop that inserts each row at the front of rows
AssignRowFront(R, L, r, v) ==
    IF r.row > 0 /\ r.a = "hasGaps"
       THEN << << L[<<"row", "date">>], L[<<"row", "open">>],
                  L[<<"row", "high">>], L[<<"row", "low">>],
                  L[<<"row", "close">>], L[<<"row", "volume">>],
                  L[<<"row", "wap">>], v >> >> \o R
       ELSE R

\* "row=[readStr(), readFloat(), ..., readStr().lower()=='true']" followed by
\* "rows.append(row)", once the last element of the row has been read
AssignRow(R, L, r, v) ==
    IF r.row > 0 /\ r.a = "hasGaps"
       THEN Append(R, << L[<<"row", "date">>], L[<<"row", "open">>],
                         L[<<"row", "high">>], L[<<"row", "low">>],
                         L[<<"row", "close">>], L[<<"row", "volume">>],
                         L[<<"row", "wap">>], v >>)
       ELSE R

(***************************************************************************)
(* The keyword arguments of the postDispatch call that ends read().        *)
(***************************************************************************)
KL(slot, a) == [slot |-> slot, src |-> "local", o |-> "", a |-> a, c |-> NoneV]
KA(slot, o, a) == [slot |-> slot, src |-> "local", o |-> o, a |-> a, c |-> NoneV]
KO(slot, o, cls) ==
    [slot |-> slot, src |-> "obj", o |-> o, a |-> "", c |-> ObjV(cls)]
KC(slot, v) == [slot |-> slot, src |-> "const", o |-> "", a |-> "", c |-> v]
KR(slot) == [slot |-> slot, src |-> "rows", o |-> "", a |-> "", c |-> NoneV]

KwdSpec(kind) ==
    CASE kind = "AccountValue" ->
            { KL("key", "key"), KL("value", "value"),
              KL("currency", "currency"), KL("accountName", "accountName") }
      [] kind = "AccountTime" ->
            { KC("key", StrV("TimeStamp")), KL("value", "timeStamp"),
              KC("currency", StrV("")), KC("accountName", StrV("")) }
      [] kind = "ContractDetails" -> { KO("details", "details", "ContractDetails") }
      [] kind = "Error" ->
            { KL("error_id", "error_id"), KL("error_code", "error_code"),
              KL("error_msg", "error_msg") }
      [] kind = "Execution" ->
            { KL("orderId", "orderId"), KO("contract", "contract", "Contract"),
              KO("details", "details", "Execution") }
      [] kind = "ManagedAccounts" -> { KL("accounts", "accounts") }
      [] kind = "MarketDepth" ->
            { KL("tickerId", "tickerId"), KL("position", "position"),
              KL("operation", "operation"), KL("side", "side"),
              KL("price", "price"), KL("size", "size") }
      [] kind = "MarketDepthLevel2" ->
            { KL("tickerId", "tickerId"), KL("position", "position"),
              KL("market_maker", "market_maker"),
              KL("operation", "operation"), KL("side", "side"),
              KL("price", "price"), KL("size", "size") }
      [] kind = "NextId" -> { KL("nextValidId", "nextValidId") }
      [] kind = "OpenOrder" ->
            { KA("orderId", "order", "orderId"),
              KO("contract", "contract", "Contract"),
              KO("order", "order", "Order") }
      [] kind = "OrderStatus" ->
            { KL("orderId", "orderId"), KL("message", "message"),
              KL("filled", "filled"), KL("remaining", "remaining"),
              KL("avgFillPrice", "avgFillPrice"), KL("permId", "permId"),
              KL("parentId", "parentId"),
              KL("lastFillPrice", "lastFillPrice"),
              KL("clientId", "clientId") }
      [] kind = "Portfolio" ->
            { KO("contract", "contract", "Contract"),
              KL("position", "position"),
              KL("market_price", "market_price"),
              KL("market_value", "market_value"),
              KL("average_cost", "average_cost"),
              KL("unrealized_pnl", "unrealized_pnl"),
              KL("realized_pnl", "realized_pnl"),
              KL("accountName", "accountName") }
      [] kind = "TickPrice" ->
            { KL("tickerId", "tickerId"), KL("field", "tickType"),
              KL("value", "price"), KL("canAutoExecute", "canAutoExecute") }
      [] kind = "TickSize" ->
            { KL("tickerId", "tickerId"), KL("field", "tickType"),
              KL("value", "size") }
      [] kind = "TickOptionComputation" ->
            { KL("tickerId", "tickerId"), KL("field", "tickType"),
              KL("impliedVol", "impliedVol"), KL("delta", "delta") }
      [] kind = "NewsBulletin" ->
            { KL("news_id", "news_id"), KL("news_type", "news_type"),
              KL("news_message", "news_message"),
              KL("news_exchange", "news_exchange") }
      [] kind = "ReceiveFa" -> { KL("data_type", "data_type"), KL("xml", "xml") }
      [] kind = "HistoricalData" ->
            { KL("version", "version"), KL("tickerId", "tickerId"),
              KR("rows") }
      [] kind = "BondContractData" ->
            { KO("details", "details", "ContractDetails") }
      [] kind = "ScannerParameters" -> { KL("xml", "xml") }
      [] kind = "ScannerData" -> { KL("tickerId", "tickerId"), KR("rows") }

\* the keyword arguments as a function from <<keyword, attribute>> (attribute
\* "" for the argument itself) to values, with the rows argument beside it
Kwds(kind, L, R) ==
    LET ks == KwdSpec(kind)
        Keys(k) ==
            IF k.src = "obj"
               THEN { <<k.slot, "">> }
                    \cup { <<k.slot, x[2]>> : x \in { y \in DOMAIN L : y[1] = k.o } }
               ELSE { <<k.slot, "">> }
        dom == UNION { Keys(k) : k \in ks }
        Val(key) ==
            LET k == CHOOSE k \in ks : k.slot = key[1]
            IN  CASE k.src = "const" -> k.c
                  [] k.src = "local" -> L[<<k.o, k.a>>]
                  [] k.src = "rows" -> ListV(Len(R))
                  [] k.src = "obj" ->
                        IF key[2] = "" THEN k.c ELSE L[<<k.o, key[2]>>]
    IN  [f |-> [key \in dom |-> Val(key)], rows |-> R]

(***************************************************************************)
(* Message classes.                                                        *)
(***************************************************************************)
\* the __slots__ of the message class of a decoder
MessageSlots(kind) ==
    CASE kind \in { "AccountValue", "AccountTime" } ->
            { "key", "value", "currency", "accountName" }
      [] kind = "Error" -> { "error_id", "error_code", "error_msg" }
      [] kind = "Execution" -> { "orderId", "contract", "details" }
      [] kind = "ManagedAccounts" -> { "accounts" }
      [] kind = "MarketDepth" ->
            { "tickerId", "position", "operation", "side", "price", "size" }
      [] kind = "MarketDepthLevel2" ->
            { "tickerId", "position", "market_maker", "operation", "side",
              "price", "size" }
      [] kind = "NextId" -> { "nextValidId" }
      [] kind = "OpenOrder" -> { "orderId", "contract", "order" }
      [] kind = "OrderStatus" ->
            { "orderId", "message", "filled", "remaining", "permId",
              "parentId", "lastFillPrice", "avgFillPrice", "clientId" }
      [] kind = "Portfolio" ->
            { "contract", "position", "market_price", "market_value",
              "average_cost", "unrealized_pnl", "realized_pnl", "accountName" }
      [] kind \in { "TickPrice", "TickSize" } ->
            { "tickerId", "field", "value", "canAutoExecute" }
      [] kind = "TickOptionComputation" ->
            { "tickerId", "field", "impliedVol", "delta" }
      [] kind = "NewsBulletin" ->
            { "news_id", "news_type", "news_message", "news_exchange" }
      [] kind = "ReceiveFa" -> { "data_type", "xml" }
      [] kind = "HistoricalData" -> { "version", "tickerId", "rows" }
      [] kind = "BondContractData" -> { "details" }
      [] kind = "ScannerParameters" -> { "xml" }
      [] kind = "ScannerData" -> { "tickerId", "rows" }
      [] OTHER -> { }

\* the decoder class has a message attribute (ContractDetails names its
\* message class "detail")
HasMessageClass(kind) == kind # "ContractDetails"

\* "self.message(**kwds)" succeeds: Message.__init__ sets one attribute per
\* keyword, which must be a slot
Constructible(kind, kw) ==
    /\ HasMessageClass(kind)
    /\ \A key \in DOMAIN kw.f : key[1] \in MessageSlots(kind)

\* TickBase.message.__init__: canAutoExecute defaults to 0
TickBaseInit(kw) ==
    IF <<"canAutoExecute", "">> \in DOMAIN kw.f
       THEN kw.f
       ELSE (<<"canAutoExecute", "">> :> IntV(0)) @@ kw.f

\* the message instance built from the keyword arguments
Construct(kind, kw) ==
    [cls |-> kind,
     f |-> IF kind \in { "TickPrice", "TickSize" } THEN TickBaseInit(kw) ELSE kw.f,
     rows |-> kw.rows]

\* the slots of a message that hold a value
Populated(msg) == { key[1] : key \in DOMAIN msg.f }

(***************************************************************************)
(* TickPrice.read, the choice of the derived size tick.                    *)
(***************************************************************************)
NoTick == 0 - 1

\* a mapping that takes the ask price to the bid size
SizeTickTypeSwapped(tickType) ==
    CASE tickType = BID -> BID_SIZE
      [] tickType = ASK -> BID_SIZE
      [] tickType = LAST -> LAST_SIZE
      [] OTHER -> NoTick

SizeTickType(tickType) ==
    CASE tickType = BID -> BID_SIZE
      [] tickType = ASK -> ASK_SIZE
      [] tickType = LAST -> LAST_SIZE
      [] OTHER -> NoTick

\* the keyword arguments of self.sizer.postDispatch(...)
SizerKwds(L) ==
    [f |-> (<<"tickerId", "">> :> L[<<"", "tickerId">>])
           @@ (<<"field", "">> :> IntV(SizeTickType(L[<<"", "tickType">>].n)))
           @@ (<<"value", "">> :> L[<<"", "size">>]),
     rows |-> << >>]

(***************************************************************************)
(* The primitive field source (readInt, readFloat, readStr): the tokens    *)
(* it may return for a read at stream position pos of message number m.    *)
(* Fields that steer the decoder take several values; a plain data field   *)
(* takes one value that identifies its position and its message.           *)
(***************************************************************************)
ReadErrors == { "MalformedField", "StreamTruncated" }

DataToken(t, pos, m) ==
    CASE t = "int" -> IntV(10 * pos + m)
      [] t = "float" -> FloatV(10 * pos + m)
      [] t = "str" -> DataStrV(10 * pos + m)

\* the integers sent for a flag field: 0, 1 and one integer beyond them
FlagTokens == 3

TokenValues(kind, r, pos, m) ==
    CASE r.a = "version" -> { IntV(v) : v \in Versions(kind) }
      [] r.a = CountLocal(kind) -> { IntV(n) : n \in (0 - 1) .. MaxRows }
      [] kind = "TickPrice" /\ r.a = "tickType" ->
            { IntV(x) : x \in { BID_SIZE, BID, ASK, LAST } }
      [] r.conv = "negToEmpty" -> { FloatV(x) : x \in { 0 - 5, 0, 5 } }
      [] r.conv = "bigToEmpty" ->
            { FloatV(x) : x \in { 0 - 15, 0 - 10, 3, 10, 15 } }
      [] r.conv = "lowerIsTrue" -> { StrV("true"), StrV("True"), StrV("false") }
      [] r.conv \in { "eq1", "bool" } -> { IntV((pos + m) % FlagTokens) }
      [] r.conv = "noneOrMkt" -> { IntV(0), IntV(1), IntV(2) }
      [] OTHER -> { DataToken(r.t, pos, m) }

(***************************************************************************)
(* State.                                                                  *)
(***************************************************************************)
VARIABLES
    dut,            \* the decoder whose read() the reader calls
    preListeners,   \* decoder -> its preListeners list
    postListeners,  \* decoder -> its postListeners list
    sizer,          \* TickPrice.sizer: "None" or "TickSize"
    pc,             \* position in read(): idle, pre, read, post, derive,
                    \* sizerPre, sizerPost, returned, raised
    it,             \* listeners already visited by the running loop
    locals,         \* locals of the running read()
    rows,           \* the rows list of the running read()
    consumed,       \* tokens the running read() took from the stream
    kwds,           \* keyword arguments of the running postDispatch
    emitted,        \* postDispatch calls of the running read()
    delivered,      \* listener invocations of the running read()
    events,         \* what the running read() did, in order
    exc,            \* the exception that left read(), or "none"
    msgNo,          \* read() calls finished so far
    priorFailure,   \* a listener raised in an earlier read()
    roundStart      \* postListeners of the running postDispatch at its call

vars ==
    << dut, preListeners, postListeners, sizer, pc, it, locals, rows,
       consumed, kwds, emitted, delivered, events, exc, msgNo, priorFailure,
       roundStart >>

NoKwds == [f |-> NoLocals, rows |-> << >>]

Ev(e, d, l, o) == [e |-> e, d |-> d, l |-> l, o |-> o]

\* the decoders of one behaviour
Scope == IF dut = "TickPrice" THEN { "TickPrice", "TickSize" } ELSE { dut }

\* the decoder whose dispatch loop is running
Cur == IF pc \in { "sizerPre", "sizerPost" } THEN "TickSize" ELSE dut

RECURSIVE SumLen(_, _)
SumLen(f, S) ==
    IF S = { } THEN 0
    ELSE LET d == CHOOSE x \in S : TRUE
         IN  Len(f[d]) + SumLen(f, S \ { d })

Registered == SumLen(preListeners, Scope) + SumLen(postListeners, Scope)

Init ==
    /\ dut \in Kinds
    /\ preListeners = [d \in Kinds |-> << >>]
    /\ postListeners = [d \in Kinds |-> << >>]
    /\ sizer = "None"
    /\ pc = "idle"
    /\ it = 0
    /\ locals = NoLocals
    /\ rows = << >>
    /\ consumed = << >>
    /\ kwds = NoKwds
    /\ emitted = << >>
    /\ delivered = << >>
    /\ events = << >>
    /\ exc = "none"
    /\ msgNo = 0
    /\ priorFailure = FALSE
    /\ roundStart = << >>

(***************************************************************************)
(* Registration (lib.ListenerContainer) and wiring, between read() calls.  *)
(***************************************************************************)
\* a listener that is not in the list
Fresh(list) ==
    1 + (IF list = << >> THEN 0
         ELSE CHOOSE x \in { list[i] : i \in 1 .. Len(list) } :
                 \A j \in 1 .. Len(list) : list[j] <= x)

RegisterPre(d) ==
    /\ pc = "idle"
    /\ d \in Scope
    /\ Registered < MaxListeners
    /\ preListeners' =
          [preListeners EXCEPT ![d] = Append(@, Fresh(@))]
    /\ UNCHANGED << dut, postListeners, sizer, pc, it, locals, rows, consumed,
                    kwds, emitted, delivered, events, exc, msgNo, priorFailure,
                    roundStart >>

RegisterPost(d) ==
    /\ pc = "idle"
    /\ d \in Scope
    /\ Registered < MaxListeners
    /\ postListeners' =
          [postListeners EXCEPT ![d] = Append(@, Fresh(@))]
    /\ UNCHANGED << dut, preListeners, sizer, pc, it, locals, rows, consumed,
                    kwds, emitted, delivered, events, exc, msgNo, priorFailure,
                    roundStart >>

\* the TickPrice decoder is given its TickSize decoder
WireSizer ==
    /\ pc = "idle"
    /\ dut = "TickPrice"
    /\ sizer = "None"
    /\ sizer' = "TickSize"
    /\ UNCHANGED << dut, preListeners, postListeners, pc, it, locals, rows,
                    consumed, kwds, emitted, delivered, events, exc, msgNo,
                    priorFailure,
                    roundStart >>

(***************************************************************************)
(* read() and the dispatch loops.                                          *)
(***************************************************************************)
\* where read() continues after d.postDispatch returns
AfterPost(d) == IF d = "TickPrice" THEN "derive" ELSE "returned"

\* the call d.postDispatch(**kw), up to its first listener
EnterPostDispatch(d, kw) ==
    /\ kwds' = kw
    /\ emitted' = Append(emitted, [d |-> d, kw |-> kw])
    /\ roundStart' = postListeners[d]
    /\ it' = 0
    /\ pc' = IF postListeners[d] # << >>
                THEN (IF d = dut THEN "post" ELSE "sizerPost")
                ELSE (IF d = dut THEN AfterPost(d) ELSE "returned")

\* the reader calls read(readInt, readFloat, readStr): self.preDispatch()
ReadCalled ==
    /\ pc = "idle"
    /\ msgNo < MaxMsgs
    /\ pc' = IF preListeners[dut] # << >> THEN "pre" ELSE "read"
    /\ UNCHANGED << dut, preListeners, postListeners, sizer, it, locals, rows,
                    consumed, kwds, emitted, delivered, events, exc, msgNo,
                    priorFailure,
                    roundStart >>

\* a listener called with a message returns or raises
Outcomes == { "ok", "raise" }

\* "msg = 'PreRead-%s' % (self, )": the argument of a pre-dispatch
\* listener, a string made of a literal and the name of the decoder class
PreMsg(d) == << "PreRead-", d >>

\* "log('%s%s' % ...)" in preDispatch: log is no name of the module (only
\* logger is; postDispatch binds its own local log), so the call raises
PreLogCall == "NameError"

\* one pass of the loop of preDispatch: the log call, then listener(msg); an
\* exception of either is logged by the handler
PreIterate ==
    /\ pc \in { "pre", "sizerPre" }
    /\ LET d == Cur
           l == preListeners[d][it + 1]
           last == it + 1 = Len(preListeners[d])
       IN  /\ \E o \in Outcomes :
                 events' =
                    IF PreLogCall = "ok"
                       THEN events \o << Ev("pre", d, l, o) >>
                            \o (IF o = "raise"
                                   THEN << Ev("logerr", d, l, "listener") >>
                                   ELSE << >>)
                       ELSE Append(events, Ev("logerr", d, l, PreLogCall))
           /\ IF last /\ pc = "sizerPre"
                 THEN EnterPostDispatch("TickSize", SizerKwds(locals))
                 ELSE /\ pc' = IF last THEN "read" ELSE pc
                      /\ it' = IF last THEN 0 ELSE it + 1
                      /\ UNCHANGED << kwds, emitted, roundStart >>
    /\ UNCHANGED << dut, preListeners, postListeners, sizer, locals, rows,
                    consumed, delivered, exc, msgNo, priorFailure >>

\* the next read of read() and the number of reads of the whole message,
\* as far as the locals determine it
CurVersion(L) == IF Has(L, "", "version") THEN L[<<"", "version">>].n ELSE 0
CurCount(kind, L) ==
    IF Has(L, "", CountLocal(kind)) THEN L[<<"", CountLocal(kind)>>].n ELSE 0
\* a read() that skips the rows when no listener is registered to receive
\* them
CurReadsUnheard(kind, L) ==
    IF postListeners[kind] = << >>
       THEN Reads(kind, CurVersion(L), 0)
       ELSE Reads(kind, CurVersion(L), CurCount(kind, L))

CurReads(kind, L) == Reads(kind, CurVersion(L), CurCount(kind, L))

\* a primitive read returns a token
ReadToken ==
    /\ pc = "read"
    /\ LET pos == Len(consumed) + 1
           r == CurReads(dut, locals)[pos]
       IN  \E tok \in TokenValues(dut, r, pos, msgNo) :
              LET v == Convert(r.conv, tok)
                  L == Assign(dut, locals, r, v)
                  R == AssignRow(rows, locals, r, v)
              IN  /\ consumed' = Append(consumed, tok)
                  /\ events' =
                        Append(events, Ev("read", dut, pos, r.t))
                        \o (IF r.err
                               THEN << Ev("raise", dut, pos, "AttributeError") >>
                               ELSE << >>)
                  /\ IF r.err
                        THEN /\ pc' = "raised"
                             /\ exc' = "AttributeError"
                             /\ UNCHANGED << locals, rows, it, kwds, emitted,
                                             roundStart >>
                        ELSE /\ locals' = L
                             /\ rows' = R
                             /\ exc' = exc
                             /\ IF pos = Len(CurReads(dut, L))
                                   THEN EnterPostDispatch(dut, Kwds(dut, L, R))
                                   ELSE /\ pc' = "read"
                                        /\ UNCHANGED << it, kwds, emitted,
                                                        roundStart >>
    /\ UNCHANGED << dut, preListeners, postListeners, sizer, delivered, msgNo,
                    priorFailure >>

\* the context an exception of a primitive read can carry
NoContext == [kind |-> "", version |-> 0, index |-> 0]

\* what read() adds to the exception of a failed primitive read before it
\* leaves: read() has no handler and keeps no field index, so nothing
ReadErrorContext(kind, L, pos) == NoContext

\* a read() that returned normally after a failed primitive read
OnReadErrorSwallowed(e) == "returned"

\* read() has no handler around its primitive reads
OnReadError(e) == "raised"

\* a primitive read fails: the exception leaves read()
ReadFails ==
    /\ pc = "read"
    /\ \E e \in ReadErrors :
          /\ exc' = e
          /\ events' = Append(events, Ev("readfail", dut, Len(consumed) + 1, e))
          /\ pc' = OnReadError(e)
    /\ UNCHANGED << dut, preListeners, postListeners, sizer, it, locals, rows,
                    consumed, kwds, emitted, delivered, msgNo, priorFailure,
                    roundStart >>

\* a postDispatch without the handler: a raising listener ends read()
PcAfterListenerNoCatch(o, last, p, d) ==
    IF o = "raise" THEN "raised"
    ELSE IF last THEN (IF p = "post" THEN AfterPost(d) ELSE "returned") ELSE p

\* a loop of postDispatch that returns after its first listener
PcAfterListenerBreak(o, last, p, d) ==
    IF p = "post" THEN AfterPost(d) ELSE "returned"

\* where the loop of postDispatch is after a listener returned or raised:
\* the handler "except (Exception, ), ex" logs and the loop goes on
PcAfterListener(o, last, p, d) ==
    IF last THEN (IF p = "post" THEN AfterPost(d) ELSE "returned") ELSE p

\* a postDispatch that builds the message before the try statement
PcAfterConstructFailureOutside(last, p, d) == "raised"

\* where the loop of postDispatch is after "self.message(**kwds)" raised:
\* the call is inside the try, so the handler logs and the loop goes on
PcAfterConstructFailure(last, p, d) == PcAfterListener("raise", last, p, d)

\* a loop that visits the listeners from the last registered to the first
NextListenerReversed(list, i) == list[Len(list) - i]

\* "for listener in self.postListeners": the loop iterates over the list
\* itself, by position; after i passes it takes the element at position
\* i + 1 of the list as it is then, and ends when there is none
NextListener(list, i) == list[i + 1]
LoopEnds(list, i) == i >= Len(list)

\* "list.remove(listener)"
RemoveAt(list, k) ==
    [j \in 1 .. (Len(list) - 1) |-> IF j < k THEN list[j] ELSE list[j + 1]]

\* what a listener being notified may do to the list it is called from:
\* unregister a listener (itself or another) or register a new one; the
\* model follows one such change per round
InflightChanges(list) ==
    IF list # roundStart THEN { }
    ELSE { RemoveAt(list, k) : k \in 1 .. Len(list) }
         \cup (IF Registered < MaxListeners
                  THEN { Append(list, Fresh(list)) }
                  ELSE { })

\* one pass of the loop of postDispatch: the message is constructed, logged
\* and passed to the listener; an exception of any of these is logged.  The
\* listener leaves the list alone (inflight FALSE) or changes it.
Notify(inflight) ==
    /\ pc \in { "post", "sizerPost" }
    /\ LET d == Cur
           list == postListeners[d]
           l == NextListener(list, it)
       IN  \E o \in Outcomes :
           \E after \in (IF inflight /\ Constructible(d, kwds)
                            THEN InflightChanges(list)
                            ELSE { list }) :
              /\ IF Constructible(d, kwds)
                    THEN /\ delivered' =
                               Append(delivered,
                                      [d |-> d, l |-> l, o |-> o,
                                       msg |-> Construct(d, kwds)])
                         /\ events' =
                               events \o << Ev("post", d, l, o) >>
                               \o (IF o = "raise"
                                      THEN << Ev("logerr", d, l, "listener") >>
                                      ELSE << >>)
                    ELSE /\ delivered' = delivered
                         /\ events' =
                               Append(events,
                                      Ev("logerr", d, l, "AttributeError"))
              /\ postListeners' = [postListeners EXCEPT ![d] = after]
              /\ pc' = IF Constructible(d, kwds)
                          THEN PcAfterListener(o, LoopEnds(after, it + 1), pc, d)
                          ELSE PcAfterConstructFailure(LoopEnds(after, it + 1),
                                                       pc, d)
              /\ it' = IF pc' = pc THEN it + 1 ELSE 0
    /\ UNCHANGED << dut, preListeners, sizer, locals, rows, consumed, kwds,
                    emitted, exc, msgNo, priorFailure, roundStart >>

\* a pass whose listener does not touch the registrations
PostIterate == Notify(FALSE)

\* a pass whose listener registers or unregisters a listener of the decoder
PostIterateInflight == Notify(TRUE)

\* TickPrice.read after its own postDispatch: no derived message
DeriveNothing ==
    /\ pc = "derive"
    /\ \/ CurVersion(locals) < 2
       \/ SizeTickType(locals[<<"", "tickType">>].n) = NoTick
    /\ pc' = "returned"
    /\ UNCHANGED << dut, preListeners, postListeners, sizer, it, locals, rows,
                    consumed, kwds, emitted, delivered, events, exc, msgNo,
                    priorFailure,
                    roundStart >>

\* a TickPrice.read that tests "self.sizer is not None" before it derives
UnwiredCallGuarded == "none"

\* "self.sizer.preDispatch()" with sizer still the class attribute None:
\* the attribute lookup on None raises
UnwiredCall == "AttributeError"

\* TickPrice.read after its own postDispatch: self.sizer is None
DeriveUnwired ==
    /\ pc = "derive"
    /\ CurVersion(locals) >= 2
    /\ SizeTickType(locals[<<"", "tickType">>].n) # NoTick
    /\ sizer = "None"
    /\ pc' = IF UnwiredCall = "none" THEN "returned" ELSE "raised"
    /\ exc' = UnwiredCall
    /\ events' = IF UnwiredCall = "none" THEN events
                 ELSE Append(events, Ev("raise", dut, 0, UnwiredCall))
    /\ UNCHANGED << dut, preListeners, postListeners, sizer, it, locals, rows,
                    consumed, kwds, emitted, delivered, msgNo, priorFailure,
                    roundStart >>

\* TickPrice.read after its own postDispatch: self.sizer.preDispatch() and
\* self.sizer.postDispatch(...)
DeriveSize ==
    /\ pc = "derive"
    /\ CurVersion(locals) >= 2
    /\ SizeTickType(locals[<<"", "tickType">>].n) # NoTick
    /\ sizer = "TickSize"
    /\ IF preListeners["TickSize"] # << >>
          THEN /\ pc' = "sizerPre"
               /\ it' = 0
               /\ UNCHANGED << kwds, emitted, roundStart >>
          ELSE EnterPostDispatch("TickSize", SizerKwds(locals))
    /\ UNCHANGED << dut, preListeners, postListeners, sizer, locals, rows,
                    consumed, delivered, events, exc, msgNo, priorFailure >>

\* read() is over; the reader goes on to the next message
Return ==
    /\ pc \in { "returned", "raised" }
    /\ pc' = "idle"
    /\ msgNo' = msgNo + 1
    /\ priorFailure' =
          (priorFailure \/ \E i \in 1 .. Len(delivered) : delivered[i].o = "raise")
    /\ it' = 0
    /\ locals' = NoLocals
    /\ rows' = << >>
    /\ consumed' = << >>
    /\ kwds' = NoKwds
    /\ emitted' = << >>
    /\ delivered' = << >>
    /\ events' = << >>
    /\ exc' = "none"
    /\ roundStart' = << >>
    /\ UNCHANGED << dut, preListeners, postListeners, sizer >>

Next ==
    \/ \E d \in Kinds : RegisterPre(d)
    \/ \E d \in Kinds : RegisterPost(d)
    \/ WireSizer
    \/ ReadCalled
    \/ PreIterate
    \/ ReadToken
    \/ ReadFails
    \/ PostIterate
    \/ DeriveNothing
    \/ DeriveUnwired
    \/ DeriveSize
    \/ Return

Spec == Init /\ [][Next]_vars

\* the same program with listeners that change the registrations of the
\* decoder that is notifying them
NextInflight ==
    \/ Next
    \/ PostIterateInflight

SpecInflight == Init /\ [][NextInflight]_vars

(***************************************************************************)
(* postDispatch called by a client of the decoder, outside read(), as      *)
(* TickPrice.read calls it on its sizer.                                   *)
(***************************************************************************)
\* keyword arguments that name each slot of the message class of d
SlotKwds(d) ==
    [f |-> [key \in { << x, "" >> : x \in MessageSlots(d) } |-> IntV(msgNo)],
     rows |-> << >>]

\* the same with one keyword that is no slot of the message class
StrayKwds(d) ==
    [f |-> (<< "stray", "" >> :> IntV(msgNo)) @@ SlotKwds(d).f, rows |-> << >>]

\* the decoders the model calls postDispatch on directly (the postDispatch
\* of TickPrice is followed inside its read() only)
DirectKinds == Kinds \ { "TickPrice" }

\* a client calls dut.postDispatch(**kw)
DirectPostDispatch ==
    /\ pc = "idle"
    /\ msgNo < MaxMsgs
    /\ dut \in DirectKinds
    /\ \E kw \in { SlotKwds(dut), StrayKwds(dut) } : EnterPostDispatch(dut, kw)
    /\ UNCHANGED << dut, preListeners, postListeners, sizer, locals, rows,
                    consumed, delivered, events, exc, msgNo, priorFailure >>

NextDirect ==
    \/ Next
    \/ DirectPostDispatch

SpecDirect == Init /\ [][NextDirect]_vars

(***************************************************************************)
(* Properties.                                                             *)
(***************************************************************************)
\* the postDispatch round of the decoder itself / of the sizer is over
OwnRoundDone == emitted # << >> /\ pc # "post"
SizerRoundDone == Len(emitted) = 2 /\ pc # "sizerPost"

\* the invocations of listener l of decoder d during the running read()
Invocations(d, l) ==
    { i \in 1 .. Len(delivered) : delivered[i].d = d /\ delivered[i].l = l }

EachInvokedOnce(d) ==
    \A i \in 1 .. Len(postListeners[d]) :
       Cardinality(Invocations(d, postListeners[d][i])) = 1

EventsOf(kinds) == { i \in 1 .. Len(events) : events[i].e \in kinds }

\* C1: subscriber isolation.  Once a postDispatch round is over, every
\* listener registered on that decoder was invoked exactly once, whichever
\* of them raised; an exception that was logged never leaves read(); and
\* after a read() in which a listener raised, the reader can call read()
\* again, for which the same holds.
C1_SubscriberIsolation ==
    /\ OwnRoundDone => EachInvokedOnce(dut)
    /\ SizerRoundDone => EachInvokedOnce("TickSize")
    /\ (events # << >> /\ events[Len(events)].e = "logerr") => pc # "raised"
    /\ (priorFailure /\ pc = "idle" /\ msgNo < MaxMsgs) => ENABLED ReadCalled

\* C1 witness: in the read() after one in which a listener raised, three
\* listeners were notified and the second of them raised
C1_Witness ==
    /\ priorFailure
    /\ pc = "returned"
    /\ Len(postListeners[dut]) = 3
    /\ Len(delivered) = 3
    /\ delivered[1].o = "ok"
    /\ delivered[2].o = "raise"
    /\ delivered[3].o = "ok"

\* C2: lifecycle order.  Once preDispatch is over, each registered
\* pre-dispatch listener was called exactly once, before the version field
\* was read; all field reads precede the post-dispatch notifications; and
\* one read() dispatches one message of its decoder.
C2_LifecycleOrder ==
    pc \notin { "idle", "pre" } =>
       /\ \A k \in 1 .. Len(preListeners[dut]) :
             Cardinality({ i \in EventsOf({ "pre" }) :
                              /\ events[i].d = dut
                              /\ events[i].l = preListeners[dut][k] }) = 1
       /\ \A i \in EventsOf({ "pre" }), j \in EventsOf({ "read" }) :
             events[i].d = dut => i < j
       /\ \A i \in EventsOf({ "read" }), j \in EventsOf({ "post" }) : i < j
       /\ Cardinality({ i \in 1 .. Len(emitted) : emitted[i].d = dut }) <= 1

\* C3: a failed primitive read leaves read() as the exception it is, at once,
\* and nothing was dispatched for the message.
C3_ReadFailurePropagates ==
    exc \in ReadErrors =>
       /\ pc = "raised"
       /\ events[Len(events)] = Ev("readfail", dut, Len(consumed) + 1, exc)
       /\ emitted = << >>
       /\ delivered = << >>

\* C3 witness: an OrderStatus read() with a listener registered failed on
\* its fourth field
C3_Witness ==
    /\ dut = "OrderStatus"
    /\ exc = "MalformedField"
    /\ Len(consumed) = 3
    /\ Len(postListeners[dut]) >= 1

(***************************************************************************)
(* The reads of a version compared with those of later versions.           *)
(***************************************************************************)
RECURSIVE IsSubseq(_, _)
IsSubseq(a, b) ==
    IF a = << >> THEN TRUE
    ELSE IF b = << >> THEN FALSE
    ELSE IF Head(a) = Head(b) THEN IsSubseq(Tail(a), Tail(b))
    ELSE IsSubseq(a, Tail(b))

IsPrefix(a, b) == Len(a) <= Len(b) /\ SubSeq(b, 1, Len(a)) = a

\* the fields read for a version: target object, attribute and primitive
FieldSeq(kind, v, n) ==
    LET rs == Reads(kind, v, n)
    IN  [i \in 1 .. Len(rs) |-> << rs[i].o, rs[i].a, rs[i].row, rs[i].t >>]

\* the primitives called for a version
TypeSeq(kind, v, n) ==
    LET rs == Reads(kind, v, n)
    IN  [i \in 1 .. Len(rs) |-> rs[i].t]

\* the primitives the running read() has called
TypeTrace == [i \in 1 .. Len(consumed) |-> consumed[i].t]

\* the running read() has performed all its reads
ReadsDone ==
    \/ emitted # << >>
    \/ pc = "raised" /\ exc = "AttributeError"

\* the versions the comparison looks ahead to
LaterVersions(kind, v) == (v + 1) .. (TopVersion(kind) + VersionSlack + 1)

\* the field OpenOrder.read reads as an integer at version 11 only
DeltaNeutralInt == << "order", "deltaNeutralOrderType", 0, "int" >>

Without(seq, x) == SelectSeq(seq, LAMBDA y : y # x)

\* C4 as claimed: version monotonicity.  Every field read for version v is
\* read, as the same primitive and in the same relative order, for version
\* v + 1, for every decoder and version.
C4_Monotonic ==
    ReadsDone =>
       LET v == CurVersion(locals)
           n == CurCount(dut, locals)
       IN  IsSubseq(FieldSeq(dut, v, n), FieldSeq(dut, v + 1, n))

\* C4 as amended: the same, except for OpenOrder at version 11, whose integer
\* deltaNeutralOrderType is read as a string at version 12; all other fields
\* of version 11 are read, in the same relative order, at version 12.
C4_MonotonicExceptOpenOrder11 ==
    ReadsDone =>
       LET v == CurVersion(locals)
           n == CurCount(dut, locals)
       IN  IF dut = "OpenOrder" /\ v = 11
              THEN /\ IsSubseq(Without(FieldSeq(dut, v, n), DeltaNeutralInt),
                               FieldSeq(dut, v + 1, n))
                   /\ DeltaNeutralInt \notin
                         { FieldSeq(dut, v + 1, n)[i] :
                              i \in 1 .. Len(FieldSeq(dut, v + 1, n)) }
                   /\ TypeTrace = TypeSeq(dut, v, n)
              ELSE /\ IsSubseq(FieldSeq(dut, v, n), FieldSeq(dut, v + 1, n))
                   /\ TypeTrace = TypeSeq(dut, v, n)

\* C4 witness: an OrderStatus read() of version 2 (version 3 adds parentId)
\* has read its seven fields
C4_Witness ==
    /\ dut = "OrderStatus"
    /\ ReadsDone
    /\ CurVersion(locals) = 2
    /\ Len(consumed) = 7

NotPrefixCase(kind, v) ==
    \/ kind \in { "Error", "Portfolio", "OpenOrder" } /\ v < 2
    \/ kind = "OpenOrder" /\ v = 11

Slot(msg, name) == msg.f[<<name, "">>]
IsZero(v) == v.t \in { "int", "float" } /\ v.n = 0

\* read() is over without a failed primitive read
DecodedWellFormed == pc \in { "returned", "raised" } /\ exc \notin ReadErrors

\* the messages delivered to the listeners of decoder d
MessagesOf(d) ==
    { delivered[i].msg : i \in { j \in 1 .. Len(delivered) : delivered[j].d = d } }

\* a slot holds the token sent at position p when the version has the field,
\* and its default otherwise
WireOrEmpty(msg, name, present, p) ==
    IF present THEN Slot(msg, name) = consumed[p]
    ELSE Slot(msg, name) = StrV("")
WireOrZero(msg, name, present, p) ==
    IF present THEN Slot(msg, name) = consumed[p]
    ELSE IsZero(Slot(msg, name))

\* the defaults and wire values of the messages with optional slots
SlotValues(kind, msg, v) ==
    CASE kind = "AccountValue" ->
            /\ Slot(msg, "key") = consumed[2]
            /\ Slot(msg, "value") = consumed[3]
            /\ Slot(msg, "currency") = consumed[4]
            /\ WireOrEmpty(msg, "accountName", v >= 2, 5)
      [] kind = "OrderStatus" ->
            /\ Slot(msg, "orderId") = consumed[2]
            /\ Slot(msg, "message") = consumed[3]
            /\ Slot(msg, "filled") = consumed[4]
            /\ Slot(msg, "remaining") = consumed[5]
            /\ Slot(msg, "avgFillPrice") = consumed[6]
            /\ WireOrZero(msg, "permId", v >= 2, 7)
            /\ WireOrZero(msg, "parentId", v >= 3, 8)
            /\ WireOrZero(msg, "lastFillPrice", v >= 4, 9)
            /\ WireOrZero(msg, "clientId", v >= 5, 10)
      [] kind = "Portfolio" ->
            LET off == IF v >= 2 THEN 1 ELSE 0
            IN  /\ Slot(msg, "position") = consumed[7 + off + 1]
                /\ Slot(msg, "market_price") = consumed[7 + off + 2]
                /\ Slot(msg, "market_value") = consumed[7 + off + 3]
                /\ WireOrZero(msg, "average_cost", v >= 3, 12)
                /\ WireOrZero(msg, "unrealized_pnl", v >= 3, 13)
                /\ WireOrZero(msg, "realized_pnl", v >= 3, 14)
                /\ WireOrEmpty(msg, "accountName", v >= 4, 15)
      [] kind = "TickPrice" ->
            /\ Slot(msg, "tickerId") = consumed[2]
            /\ Slot(msg, "field") = consumed[3]
            /\ Slot(msg, "value") = consumed[4]
            /\ WireOrZero(msg, "canAutoExecute", v >= 3, 6)
      [] OTHER -> TRUE

\* C6: for every decoder and version, decoding a well-formed message with a
\* listener registered delivers a message; every slot of its class holds a
\* value; fields on the wire hold the tokens sent and fields of later
\* versions their defaults.
C6_AllSlotsPopulated ==
    (DecodedWellFormed /\ postListeners[dut] # << >>) =>
       /\ MessagesOf(dut) # { }
       /\ \A msg \in MessagesOf(dut) :
             /\ Populated(msg) = MessageSlots(dut)
             /\ SlotValues(dut, msg, CurVersion(locals))

\* the decoders whose read() fails on an attribute of a ContractDetails
\* decoder instance before it dispatches
RaisesBeforeDispatch ==
    \/ dut \in { "ContractDetails", "BondContractData" }
    \/ dut = "ScannerData" /\ CurCount(dut, locals) >= 1

\* what holds of C6: the same for the decoders that reach postDispatch
C6_SlotsPopulatedWhenDispatched ==
    (DecodedWellFormed /\ postListeners[dut] # << >> /\ ~RaisesBeforeDispatch) =>
       /\ MessagesOf(dut) # { }
       /\ \A msg \in MessagesOf(dut) :
             /\ Populated(msg) = MessageSlots(dut)
             /\ SlotValues(dut, msg, CurVersion(locals))

\* the size kind that belongs to a price kind
SizeKindOf(priceKind) ==
    CASE priceKind = BID -> BID_SIZE
      [] priceKind = ASK -> ASK_SIZE
      [] priceKind = LAST -> LAST_SIZE

\* C7: TickPrice derived message.  A TickPrice read() that returns has made,
\* for version >= 2 and price kind bid, ask or last, exactly one postDispatch
\* call on the wired TickSize decoder after its own, with the ticker id, the
\* matching size kind and the size token, delivered as such to each TickSize
\* listener; for any other price kind (or version 1) it has made none.
C7_DerivedTickSize ==
    (dut = "TickPrice" /\ pc = "returned") =>
       LET v == consumed[1].n
           kind == consumed[3].n
       IN  IF v >= 2 /\ kind \in { BID, ASK, LAST }
              THEN /\ sizer = "TickSize"
                   /\ Len(emitted) = 2
                   /\ emitted[1].d = "TickPrice"
                   /\ emitted[2].d = "TickSize"
                   /\ emitted[2].kw.f[<<"tickerId", "">>] = consumed[2]
                   /\ emitted[2].kw.f[<<"field", "">>] = IntV(SizeKindOf(kind))
                   /\ emitted[2].kw.f[<<"value", "">>] = consumed[5]
                   /\ EachInvokedOnce("TickSize")
                   /\ \A msg \in MessagesOf("TickSize") :
                         /\ Slot(msg, "tickerId") = consumed[2]
                         /\ Slot(msg, "field") = IntV(SizeKindOf(kind))
                         /\ Slot(msg, "value") = consumed[5]
              ELSE /\ Len(emitted) = 1
                   /\ emitted[1].d = "TickPrice"
                   /\ MessagesOf("TickSize") = { }

\* C7 witness: a version-2 ask price was decoded and its size delivered to a
\* TickSize listener
C7_Witness ==
    /\ dut = "TickPrice"
    /\ pc = "returned"
    /\ consumed[1].n = 2
    /\ consumed[3].n = ASK
    /\ Len(emitted) = 2
    /\ MessagesOf("TickSize") # { }

\* C8: Error has two wire shapes.  For version < 2 one string follows the
\* version and error_id and error_code are None; for version >= 2 an integer
\* id, an integer code and the string follow, in that order, and the message
\* carries the three tokens.
C8_ErrorShapes ==
    (dut = "Error" /\ emitted # << >>) =>
       LET v == consumed[1].n
           kw == emitted[1].kw
           Carries(f) ==
              IF v < 2
                 THEN /\ TypeTrace = << "int", "str" >>
                      /\ f[<<"error_id", "">>] = NoneV
                      /\ f[<<"error_code", "">>] = NoneV
                      /\ f[<<"error_msg", "">>] = consumed[2]
                 ELSE /\ TypeTrace = << "int", "int", "int", "str" >>
                      /\ f[<<"error_id", "">>] = consumed[2]
                      /\ f[<<"error_code", "">>] = consumed[3]
                      /\ f[<<"error_msg", "">>] = consumed[4]
       IN  /\ Carries(kw.f)
           /\ \A msg \in MessagesOf("Error") : Carries(msg.f)

\* C8 witness: an Error message of version 2 was delivered
C8_Witness ==
    /\ dut = "Error"
    /\ consumed # << >>
    /\ consumed[1].n = 2
    /\ MessagesOf("Error") # { }

\* C9: TickOptionComputation normalisation.  impliedVol is the empty value
\* iff the token is below 0 and the token otherwise; delta is the empty value
\* iff its magnitude exceeds 1 and the token otherwise.
C9_OptionNormalised ==
    (dut = "TickOptionComputation" /\ emitted # << >>) =>
       LET vol == consumed[4]
           delta == consumed[5]
           Normal(f) ==
              /\ f[<<"impliedVol", "">>] = StrV("") <=> vol.n < 0
              /\ vol.n >= 0 => f[<<"impliedVol", "">>] = vol
              /\ f[<<"delta", "">>] = StrV("")
                    <=> (delta.n > DeltaLimit \/ delta.n < 0 - DeltaLimit)
              /\ (delta.n <= DeltaLimit /\ delta.n >= 0 - DeltaLimit)
                    => f[<<"delta", "">>] = delta
       IN  /\ Normal(emitted[1].kw.f)
           /\ \A msg \in MessagesOf(dut) : Normal(msg.f)

\* C9 witness: a message with implied volatility 0 and delta -1 was delivered
C9_Witness ==
    /\ dut = "TickOptionComputation"
    /\ MessagesOf(dut) # { }
    /\ consumed[4].n = 0
    /\ consumed[5].n = 0 - DeltaLimit

\* the tokens per row of HistoricalData
HistoricalRowLen == 8

\* C10: HistoricalData rows.  With count n >= 0 and n rows sent, the message
\* has exactly n rows, row i made of the tokens of the i-th row group in
\* order, its last element the boolean of the hasGaps token.
C10_HistoricalRows ==
    (dut = "HistoricalData" /\ emitted # << >>) =>
       LET n == consumed[3].n
           At(i, j) == consumed[3 + HistoricalRowLen * (i - 1) + j]
           Holds(R) ==
              /\ Len(R) = n
              /\ \A i \in 1 .. n :
                    /\ Len(R[i]) = HistoricalRowLen
                    /\ \A j \in 1 .. (HistoricalRowLen - 1) : R[i][j] = At(i, j)
                    /\ R[i][HistoricalRowLen].t = "bool"
                    /\ At(i, HistoricalRowLen).s = "true"
                          => R[i][HistoricalRowLen] = BoolV(TRUE)
                    /\ At(i, HistoricalRowLen).s = "false"
                          => R[i][HistoricalRowLen] = BoolV(FALSE)
       IN  n >= 0 =>
              /\ Holds(emitted[1].kw.rows)
              /\ emitted[1].kw.f[<<"rows", "">>] = ListV(n)
              /\ \A msg \in MessagesOf(dut) : Holds(msg.rows)

\* C10 witness: a message with two rows was delivered
C10_Witness ==
    /\ dut = "HistoricalData"
    /\ MessagesOf(dut) # { }
    /\ consumed[3].n = 2
    /\ Len(consumed) = 19

\* the tokens per row of ScannerData
ScannerRowLen == 14

\* the tokens per row of a message with repeated row groups
RowLen(kind) ==
    IF kind = "HistoricalData" THEN HistoricalRowLen ELSE ScannerRowLen

\* C11: row uniformity.  A HistoricalData or ScannerData read() of a
\* well-formed message with count n >= 0 returns after it has consumed
\* exactly 3 + 8 * n respectively 3 + 14 * n tokens: the same number for
\* every row, whatever the version.
C11_RowUniformity ==
    (dut \in { "HistoricalData", "ScannerData" } /\ DecodedWellFormed
        /\ CurCount(dut, locals) >= 0) =>
       /\ pc = "returned"
       /\ Len(consumed) = 3 + RowLen(dut) * CurCount(dut, locals)

\* C12 as claimed: the hasGaps element of a row is true iff the token is
\* exactly the string "true"; any other token, "True" included, gives false.
C12_HasGapsCaseSensitive ==
    (dut = "HistoricalData" /\ emitted # << >>) =>
       \A i \in 1 .. Len(emitted[1].kw.rows) :
          emitted[1].kw.rows[i][HistoricalRowLen]
             = BoolV(consumed[3 + HistoricalRowLen * i].s = "true")

\* the token reads "true" in any mix of upper and lower case
ReadsTrue(tok) == tok.s \in { "true", "True", "TRUE" }

\* C12 as amended: the hasGaps element of a row is true iff the token,
\* folded to lower case, is "true": "true" and "True" give true, any other
\* token false.
C12_HasGapsCaseInsensitive ==
    (dut = "HistoricalData" /\ emitted # << >>) =>
       /\ \A i \in 1 .. Len(emitted[1].kw.rows) :
             emitted[1].kw.rows[i][HistoricalRowLen]
                = BoolV(ReadsTrue(consumed[3 + HistoricalRowLen * i]))
       /\ \A msg \in MessagesOf(dut) : msg.rows = emitted[1].kw.rows

\* C12 witness: a delivered message has a row whose hasGaps token was "True"
\* and one whose token was "false"
C12_Witness ==
    /\ dut = "HistoricalData"
    /\ MessagesOf(dut) # { }
    /\ Len(emitted[1].kw.rows) = 2
    /\ consumed[3 + HistoricalRowLen].s = "True"
    /\ consumed[3 + 2 * HistoricalRowLen].s = "false"

(***************************************************************************)
(* The notification rounds.                                                *)
(***************************************************************************)
\* the invocations made for decoder d during the running read(), in order
DeliveredTo(d) == SelectSeq(delivered, LAMBDA x : x.d = d)

\* the listeners invoked for decoder d, in order
InvokedSeq(d) == [i \in 1 .. Len(DeliveredTo(d)) |-> DeliveredTo(d)[i].l]

\* the i-th postDispatch call of the running read() has finished its loop
RoundDone(i) == IF i = 1 THEN OwnRoundDone ELSE SizerRoundDone

\* C13: post-dispatch delivery.  In a round during which the registrations
\* stay as they are, the listeners are invoked in registration order; once
\* the round is over every registered listener was invoked exactly once;
\* and each receives the message built from the keyword arguments of the
\* postDispatch call, with every slot of the message class given.
C13_RegistrationOrder ==
    \A i \in 1 .. Len(emitted) :
       LET d == emitted[i].d
       IN  /\ IsPrefix(InvokedSeq(d), postListeners[d])
           /\ RoundDone(i) => InvokedSeq(d) = postListeners[d]
           /\ \A j \in 1 .. Len(DeliveredTo(d)) :
                 /\ DeliveredTo(d)[j].msg = Construct(d, emitted[i].kw)
                 /\ Populated(DeliveredTo(d)[j].msg) = MessageSlots(d)

\* C13 witness: an OrderStatus message was delivered to three listeners
C13_Witness ==
    /\ dut = "OrderStatus"
    /\ pc = "returned"
    /\ Len(postListeners[dut]) = 3
    /\ Len(InvokedSeq(dut)) = 3

\* every postDispatch call of the running read() has served all listeners
RoundsFinished ==
    \A i \in 1 .. Len(emitted) :
       Len(DeliveredTo(emitted[i].d)) = Len(postListeners[emitted[i].d])

\* C14: strict sequencing.  A token is read only by a read() that has not
\* notified any listener yet; read() returns only when every postDispatch
\* round it started has finished; and the reader moves to the next message
\* only from a read() that has returned or raised, so that no token of
\* message n + 1 is read before the reads and notifications of message n
\* are over.
C14_StrictSequencing ==
    [][ /\ Len(consumed') > Len(consumed) =>
              (pc = "read" /\ emitted = << >> /\ delivered = << >>)
        /\ pc' = "returned" => (emitted' # << >> /\ RoundsFinished')
        /\ msgNo' # msgNo =>
              /\ msgNo' = msgNo + 1
              /\ pc \in { "returned", "raised" }
              /\ RoundsFinished
              /\ consumed' = << >>
        /\ (pc = "idle" /\ pc' # "idle") => (consumed' = << >> /\ delivered' = << >>)
      ]_vars

\* C14 witness: after a read() in which a listener was notified and raised,
\* the next read() is reading the tokens of the second message
C14_Witness ==
    /\ msgNo = 1
    /\ priorFailure
    /\ pc = "read"
    /\ Len(consumed) >= 2

(***************************************************************************)
(* Flag fields.                                                            *)
(***************************************************************************)
\* the fields the protocol sends as the integers 0 and 1
FlagFields(kind) ==
    CASE kind = "OpenOrder" ->
            { <<"order", "ignoreRth">>, <<"order", "hidden">>,
              <<"order", "rthOnly">>, <<"order", "blockOrder">>,
              <<"order", "sweepToFill">>, <<"order", "allOrNone">>,
              <<"order", "eTradeOnly">>, <<"order", "firmQuoteOnly">>,
              <<"order", "continuousUpdate">> }
      [] kind = "BondContractData" ->
            { <<"details", "convertible">>, <<"details", "callable">>,
              <<"details", "putable">> }
      [] OTHER -> { }

\* the flag fields the decoded version carries
FlagsOnWire(kind, v) ==
    CASE kind = "OpenOrder" ->
            { f \in FlagFields(kind) :
                 \/ v >= 4 /\ f[2] \in { "ignoreRth", "hidden" }
                 \/ v >= 11 /\ f[2] = "continuousUpdate"
                 \/ v >= 9 /\ f[2] \notin { "ignoreRth", "hidden",
                                           "continuousUpdate" } }
      [] OTHER -> FlagFields(kind)

\* the token the running read() took for a field
TokenOf(f) ==
    LET rs == CurReads(dut, locals)
        i == CHOOSE j \in 1 .. Len(rs) : rs[j].o = f[1] /\ rs[j].a = f[2]
    IN  consumed[i]

\* C15: boolean flags.  A well-formed OpenOrder or BondContractData message
\* is dispatched with every flag field of its version holding a boolean:
\* true for token 1, false for token 0, and the same value for the same
\* token whichever the field.
C15_BooleanFlags ==
    (dut \in { "OpenOrder", "BondContractData" } /\ DecodedWellFormed) =>
       /\ emitted # << >>
       /\ LET f == emitted[1].kw.f
              flags == FlagsOnWire(dut, CurVersion(locals))
          IN  /\ \A x \in flags :
                    /\ x \in DOMAIN f
                    /\ f[x].t = "bool"
                    /\ TokenOf(x).n = 1 => f[x] = BoolV(TRUE)
                    /\ TokenOf(x).n = 0 => f[x] = BoolV(FALSE)
              /\ \A x, y \in flags : TokenOf(x) = TokenOf(y) => f[x] = f[y]

\* what holds of the OpenOrder flags other than continuousUpdate for the
\* tokens 0 and 1
OpenOrderFlagsZeroOne ==
    (dut = "OpenOrder" /\ emitted # << >>) =>
       LET f == emitted[1].kw.f
       IN  \A x \in FlagsOnWire(dut, CurVersion(locals))
                       \ { <<"order", "continuousUpdate">> } :
              /\ f[x].t = "bool"
              /\ TokenOf(x).n = 1 => f[x] = BoolV(TRUE)
              /\ TokenOf(x).n = 0 => f[x] = BoolV(FALSE)

(***************************************************************************)
(* Registrations changed by a listener during a round.                     *)
(***************************************************************************)
\* the listeners of a list
ListenersIn(list) == { list[k] : k \in 1 .. Len(list) }

\* C16: a registration or removal made by a listener while it is notified
\* does not corrupt the round.  Once a round is over, every listener that
\* was registered when the round started and was not removed during it was
\* invoked exactly once in it.
C16_InflightSafe ==
    (emitted # << >> /\ RoundDone(Len(emitted))) =>
       LET d == emitted[Len(emitted)].d
       IN  \A l \in ListenersIn(roundStart) \cap ListenersIn(postListeners[d]) :
              Cardinality(Invocations(d, l)) = 1

\* what holds of C16: a listener that only registers a new listener leaves
\* the round of the others intact
InflightRegistrationSafe ==
    (emitted # << >> /\ RoundDone(Len(emitted))
        /\ ListenersIn(roundStart)
              \subseteq ListenersIn(postListeners[emitted[Len(emitted)].d])) =>
       \A l \in ListenersIn(roundStart) :
          Cardinality(Invocations(emitted[Len(emitted)].d, l)) = 1

(***************************************************************************)
(* ContractDetails, read errors and preDispatch.                           *)
(***************************************************************************)
\* C17: a well-formed ContractDetails message of any version is decoded
\* without error and delivered once to every registered listener, with
\* details.priceMagnifier 0 for version < 2 and the last token for
\* version >= 2.
C17_ContractDetailsDecodes ==
    (dut = "ContractDetails" /\ DecodedWellFormed) =>
       /\ pc = "returned"
       /\ exc = "none"
       /\ emitted # << >>
       /\ EachInvokedOnce(dut)
       /\ \A msg \in MessagesOf(dut) :
             /\ <<"details", "priceMagnifier">> \in DOMAIN msg.f
             /\ msg.f[<<"details", "priceMagnifier">>] =
                   IF CurVersion(locals) < 2 THEN IntV(0)
                   ELSE consumed[Len(consumed)]

\* C18: the exception of a failed primitive read reaches the caller with
\* the message kind, the decoded version and the index of the field that
\* failed.
C18_ErrorContext ==
    (exc \in ReadErrors /\ consumed # << >>) =>
       ReadErrorContext(dut, locals, Len(consumed) + 1) =
          [kind |-> dut, version |-> CurVersion(locals),
           index |-> Len(consumed) + 1]

\* C19: preDispatch is a pure lifecycle signal.  Once preDispatch is over,
\* every pre-dispatch listener has been invoked, with an argument that is
\* made of the decoder's name only; preDispatch reads no token and leaves
\* the locals, the rows and the dispatch state of the decode as they are
\* without it.
C19_PreDispatchPure ==
    /\ pc \notin { "idle", "pre" } =>
          \A k \in 1 .. Len(preListeners[dut]) :
             \E i \in EventsOf({ "pre" }) :
                /\ events[i].d = dut
                /\ events[i].l = preListeners[dut][k]
                /\ PreMsg(dut) = << "PreRead-", dut >>
    /\ pc = "pre" =>
          /\ consumed = << >>
          /\ locals = NoLocals
          /\ rows = << >>
          /\ emitted = << >>
          /\ delivered = << >>

\* what holds of C19: preDispatch reads no token and leaves the state of
\* the decode alone
PreDispatchFrame ==
    pc = "pre" =>
       /\ consumed = << >>
       /\ locals = NoLocals
       /\ rows = << >>
       /\ emitted = << >>
       /\ delivered = << >>

(***************************************************************************)
(* Versions above the highest one a decoder tests for.                     *)
(***************************************************************************)
\* the locals and rows after the reads rs, from the i-th on, took the
\* tokens toks
RECURSIVE ReplayFrom(_, _, _, _, _, _)
ReplayFrom(kind, rs, toks, i, L, R) ==
    IF i > Len(rs) \/ i > Len(toks) THEN [L |-> L, R |-> R]
    ELSE LET v == Convert(rs[i].conv, toks[i])
         IN  ReplayFrom(kind, rs, toks, i + 1,
                        Assign(kind, L, rs[i], v), AssignRow(R, L, rs[i], v))

\* the locals and rows read() has after it took the tokens toks along the
\* path of version g
DecodeAt(kind, g, toks, n) ==
    ReplayFrom(kind, Reads(kind, g, n), toks, 2,
               Put(Defaults(kind, g), "", "version", toks[1]), << >>)

\* C20: forward compatibility.  A read() of a version above the highest
\* version its decoder tests for reads the same fields, as the same
\* primitives in the same order, as a read() of that highest version, and
\* dispatches (and delivers) what the path of the highest version makes of
\* the same tokens.
C20_ForwardCompatible ==
    (ReadsDone /\ CurVersion(locals) > TopVersion(dut)) =>
       LET top == TopVersion(dut)
           n == CurCount(dut, locals)
           atTop == DecodeAt(dut, top, consumed, n)
       IN  /\ FieldSeq(dut, CurVersion(locals), n) = FieldSeq(dut, top, n)
           /\ TypeTrace = TypeSeq(dut, top, n)
           /\ emitted # << >> =>
                 /\ emitted[1].kw = Kwds(dut, atTop.L, atTop.R)
                 /\ \A msg \in MessagesOf(dut) :
                       msg = Construct(dut, Kwds(dut, atTop.L, atTop.R))
           /\ Len(emitted) = 2 => emitted[2].kw = SizerKwds(atTop.L)

\* C20 witness: an OrderStatus message of version 6 was delivered
C20_Witness ==
    /\ dut = "OrderStatus"
    /\ CurVersion(locals) = TopVersion(dut) + 1
    /\ Len(consumed) = 10
    /\ MessagesOf(dut) # { }

(***************************************************************************)
(* The stream position.                                                    *)
(***************************************************************************)
\* the count token of the running read(), once read (0 before, and for the
\* decoders without one)
CountToken ==
    IF CountLocal(dut) # "" /\ Len(consumed) >= 3 THEN consumed[3].n ELSE 0

\* C21: stream synchronisation is independent of the listeners.  The
\* primitives a read() calls are those the version and count tokens
\* determine, however many pre- or post-dispatch listeners are registered
\* and whichever of them raise; the dispatch steps take no token; so a
\* read() of a well-formed message ends with the stream at the position
\* the tokens alone determine.
C21_StreamSync ==
    /\ consumed # << >> =>
          IsPrefix(TypeTrace, TypeSeq(dut, consumed[1].n, CountToken))
    /\ pc \in { "post", "derive", "sizerPre", "sizerPost", "returned" } =>
          TypeTrace = TypeSeq(dut, consumed[1].n, CountToken)
    /\ (DecodedWellFormed /\ consumed # << >>) =>
          TypeTrace = TypeSeq(dut, consumed[1].n, CountToken)

\* C21 witness: a read() of an OrderStatus message of version 5 returned
\* after a pre-dispatch listener was passed and, of two post-dispatch
\* listeners, one raised
C21_Witness ==
    /\ dut = "OrderStatus"
    /\ pc = "returned"
    /\ Len(preListeners[dut]) = 1
    /\ Len(postListeners[dut]) = 2
    /\ \E i \in 1 .. Len(delivered) : delivered[i].o = "raise"
    /\ consumed[1].n = 5
    /\ Len(consumed) = 10

(***************************************************************************)
(* Construction of the message in postDispatch.                            *)
(***************************************************************************)
\* the loop passes of decoder d in which the message was built and the
\* listener called, and those in which building the message raised
BuiltFor(d) == { i \in EventsOf({ "post" }) : events[i].d = d }
FailedBuildsFor(d) ==
    { i \in EventsOf({ "logerr" }) :
         events[i].d = d /\ events[i].o = "AttributeError" }

\* C22: the message is built inside the guarded loop pass, once per
\* listener.  Once a postDispatch call is over, the message was built as
\* many times as listeners are registered (never with none); if building
\* it raises, each pass logged the exception, no listener was invoked, all
\* listeners were attempted and the call returned normally.
C22_ConstructionGuarded ==
    \A i \in 1 .. Len(emitted) :
       RoundDone(i) =>
          LET d == emitted[i].d
              n == Len(postListeners[d])
          IN  IF Constructible(d, emitted[i].kw)
                 THEN /\ Cardinality(BuiltFor(d)) = n
                      /\ FailedBuildsFor(d) = { }
                      /\ Len(DeliveredTo(d)) = n
                 ELSE /\ BuiltFor(d) = { }
                      /\ Cardinality(FailedBuildsFor(d)) = n
                      /\ DeliveredTo(d) = << >>
                      /\ pc = "returned"
                      /\ exc = "none"

\* C22 witness: a postDispatch call with a keyword that is no slot of the
\* message class is over; both registered listeners were passed over
C22_Witness ==
    /\ emitted # << >>
    /\ pc = "returned"
    /\ ~Constructible(dut, emitted[1].kw)
    /\ Len(postListeners[dut]) = 2
    /\ Cardinality(FailedBuildsFor(dut)) = 2
    /\ delivered = << >>

\* C22, no listener: a postDispatch call on a decoder without listeners is
\* over and nothing was built
NothingBuiltUnheard ==
    /\ emitted # << >>
    /\ pc = "returned"
    /\ postListeners[dut] = << >>
    /\ events = << >>

(***************************************************************************)
(* The derived TickSize message of TickPrice.read.                         *)
(***************************************************************************)
\* the events of kind e logged for decoder d
EventsFor(e, d) == { i \in EventsOf({ e }) : events[i].d = d }

\* the passes of the preDispatch loop of decoder d that ended in the handler
PassedOver(d) ==
    { i \in EventsFor("logerr", d) : events[i].o = PreLogCall }

\* the derived message is dispatched after the price message, carries
\* canAutoExecute 0 and costs no token
DerivedAfterPrice ==
    /\ \A i \in EventsFor("post", "TickPrice"), j \in 1 .. Len(events) :
          events[j].d = "TickSize" => i < j
    /\ \A i \in EventsFor("pre", "TickSize") \cup PassedOver("TickSize"),
          j \in EventsFor("post", "TickSize") : i < j
    /\ \A msg \in MessagesOf("TickSize") :
          Slot(msg, "canAutoExecute") = IntV(0)
    /\ TypeTrace = TypeSeq("TickPrice", consumed[1].n, 0)
    /\ \A i \in EventsOf({ "read" }), j \in EventsOf({ "post" }) : i < j

\* C23: TickPrice ordering.  In a TickPrice read() of version >= 2 with a
\* mapped price kind, every TickPrice listener is notified of the price
\* message first, then every pre-dispatch listener of the TickSize decoder
\* is notified, then every TickSize listener receives the derived message,
\* which carries canAutoExecute 0; no token is read for it.
C23_TickPriceOrdering ==
    (dut = "TickPrice" /\ pc = "returned" /\ Len(emitted) = 2) =>
       /\ DerivedAfterPrice
       /\ EachInvokedOnce("TickPrice")
       /\ EachInvokedOnce("TickSize")
       /\ \A k \in 1 .. Len(preListeners["TickSize"]) :
             \E i \in EventsFor("pre", "TickSize") :
                events[i].l = preListeners["TickSize"][k]

\* what holds of C23: the same order, with each pre-dispatch listener of
\* the TickSize decoder passed over at its place instead of notified
TickPriceOrderingAsLogged ==
    (dut = "TickPrice" /\ pc = "returned" /\ Len(emitted) = 2) =>
       /\ DerivedAfterPrice
       /\ EachInvokedOnce("TickPrice")
       /\ EachInvokedOnce("TickSize")
       /\ EventsFor("pre", "TickSize") = { }
       /\ Cardinality(PassedOver("TickSize")) = Len(preListeners["TickSize"])

\* C24: the unwired sizer.  A TickPrice read() of a well-formed message on
\* a decoder whose sizer is None raises, for version >= 2 and price kind
\* bid, ask or last, after every token of the message was taken and the
\* price message was delivered to every TickPrice listener, and nothing is
\* dispatched as a size; for version 1 or any other price kind it returns.
C24_UnwiredSizer ==
    (dut = "TickPrice" /\ sizer = "None" /\ DecodedWellFormed) =>
       LET v == consumed[1].n
           kind == consumed[3].n
       IN  IF v >= 2 /\ kind \in { BID, ASK, LAST }
              THEN /\ pc = "raised"
                   /\ exc = "AttributeError"
                   /\ TypeTrace = TypeSeq("TickPrice", v, 0)
                   /\ Len(emitted) = 1
                   /\ EachInvokedOnce("TickPrice")
                   /\ \A msg \in MessagesOf("TickPrice") :
                         SlotValues("TickPrice", msg, v)
                   /\ MessagesOf("TickSize") = { }
                   /\ events[Len(events)].e = "raise"
                   /\ \A i \in EventsFor("post", "TickPrice") : i < Len(events)
              ELSE /\ pc = "returned"
                   /\ exc = "none"
                   /\ Len(emitted) = 1

\* C24 witness: a version-3 last price was delivered to two TickPrice
\* listeners before the read() raised for want of a sizer
C24_Witness ==
    /\ dut = "TickPrice"
    /\ sizer = "None"
    /\ pc = "raised"
    /\ exc = "AttributeError"
    /\ consumed[1].n = 3
    /\ consumed[3].n = LAST
    /\ Len(delivered) = 2

\* C24 witness of the other case: a version-1 bid price was read and
\* delivered on a decoder without a sizer
UnwiredVersionOneReturns ==
    /\ dut = "TickPrice"
    /\ sizer = "None"
    /\ pc = "returned"
    /\ consumed[1].n = 1
    /\ consumed[3].n = BID
    /\ Len(delivered) = 1

(***************************************************************************)
(* Counts and the delta-neutral fields.                                    *)
(***************************************************************************)
\* C25: empty row groups.  A HistoricalData or ScannerData read() of a
\* message whose count is zero or negative takes exactly three tokens,
\* raises nothing and dispatches, and delivers to every listener, a message
\* with no rows.
C25_NoRows ==
    (dut \in { "HistoricalData", "ScannerData" } /\ DecodedWellFormed
        /\ consumed[3].n <= 0) =>
       /\ pc = "returned"
       /\ exc = "none"
       /\ TypeTrace = << "int", "int", "int" >>
       /\ Len(emitted) = 1
       /\ emitted[1].kw.rows = << >>
       /\ emitted[1].kw.f[<<"rows", "">>] = ListV(0)
       /\ emitted[1].kw.f[<<"tickerId", "">>] = consumed[2]
       /\ EachInvokedOnce(dut)
       /\ \A msg \in MessagesOf(dut) :
             msg.rows = << >> /\ Slot(msg, "rows") = ListV(0)

\* C25 witness: a ScannerData message with count -1 was delivered
C25_Witness ==
    /\ dut = "ScannerData"
    /\ pc = "returned"
    /\ Len(consumed) = 3
    /\ consumed[3].n = 0 - 1
    /\ MessagesOf(dut) # { }

\* C25 witness of the other decoder: a HistoricalData message with count 0
\* was delivered
HistoricalCountZeroDelivered ==
    /\ dut = "HistoricalData"
    /\ pc = "returned"
    /\ consumed[3].n = 0
    /\ MessagesOf(dut) # { }

\* the position in the stream of the OpenOrder field a of the order
OrderFieldPos(a) ==
    LET rs == CurReads(dut, locals)
    IN  CHOOSE j \in 1 .. Len(rs) : rs[j].o = "order" /\ rs[j].a = a

\* C26: the delta-neutral fields of OpenOrder.  After volatilityType, a
\* message of version 11 carries one integer, for which the order's
\* deltaNeutralOrderType is "NONE" if it is 0 and "MKT" otherwise, and no
\* deltaNeutralAuxPrice; a message of version 12 or later carries a string
\* (deltaNeutralOrderType) and a float (deltaNeutralAuxPrice); in both,
\* continuousUpdate and referencePriceType are the next and last tokens.
C26_DeltaNeutral ==
    (dut = "OpenOrder" /\ emitted # << >> /\ consumed[1].n >= 11) =>
       LET p == OrderFieldPos("volatilityType")
           f == emitted[1].kw.f
           type == <<"order", "deltaNeutralOrderType">>
           aux == <<"order", "deltaNeutralAuxPrice">>
           Rest(q) ==
              /\ consumed[q].t = "int"
              /\ f[<<"order", "continuousUpdate">>] = consumed[q]
              /\ consumed[q + 1].t = "int"
              /\ f[<<"order", "referencePriceType">>] = consumed[q + 1]
              /\ Len(consumed) = q + 1
       IN  /\ f[<<"order", "volatilityType">>] = consumed[p]
           /\ IF consumed[1].n = 11
                 THEN /\ consumed[p + 1].t = "int"
                      /\ f[type] = IF consumed[p + 1].n = 0 THEN StrV("NONE")
                                   ELSE StrV("MKT")
                      /\ aux \notin DOMAIN f
                      /\ Rest(p + 2)
                 ELSE /\ consumed[p + 1].t = "str"
                      /\ f[type] = consumed[p + 1]
                      /\ consumed[p + 2].t = "float"
                      /\ f[aux] = consumed[p + 2]
                      /\ Rest(p + 3)
           /\ \A msg \in MessagesOf(dut) : msg.f = f

\* C26 witness: an OpenOrder message of version 11 whose delta-neutral
\* integer was 2 was delivered as "MKT"
C26_Witness ==
    /\ dut = "OpenOrder"
    /\ consumed # << >>
    /\ consumed[1].n = 11
    /\ MessagesOf(dut) # { }
    /\ consumed[OrderFieldPos("volatilityType") + 1].n = 2
    /\ emitted[1].kw.f[<<"order", "deltaNeutralOrderType">>] = StrV("MKT")

\* C26 witness of the later versions: an OpenOrder message of version 12
\* was delivered
DeltaNeutralStringDelivered ==
    /\ dut = "OpenOrder"
    /\ consumed # << >>
    /\ consumed[1].n = 12
    /\ MessagesOf(dut) # { }
    /\ <<"order", "deltaNeutralAuxPrice">> \in DOMAIN emitted[1].kw.f

=============================================================================
